---- MODULE Spec2Model ----
(***************************************************************************)
(* CRUD de colaboradores: tabela `colaboradores` (MySQL), ColaboradorModel, *)
(* ColaboradorController (Express), componentes Vue ListaColaboradores,     *)
(* FormColaborador e Home, e o script testDatabaseConnection.               *)
(*                                                                         *)
(* Four specifications share the variables:                               *)
(*   Spec      - the back end: one request handler at a time, split at its *)
(*               `await` on the Record Model;                               *)
(*   SpecUI    - Home + ListaColaboradores + FormColaborador talking to the *)
(*               back end over a network that may reorder responses;        *)
(*   SpecLista - the List View alone with a back end that does not fail;    *)
(*   SpecTeste - runs of testDatabaseConnection (both versions).            *)
(***************************************************************************)
EXTENDS Integers, Sequences, FiniteSets, Bags, TLC

VARIABLES
    tabela,      \* rows of `colaboradores`: a function id -> the four columns
    autoInc,     \* the table's AUTO_INCREMENT counter
    req,         \* back end: the handler invocation in progress
    res,         \* back end: responses the handler has sent for `req`
    mostrandoFormulario,  \* Home.data
    colaboradorAtual,     \* Home.data
    colaboradores,        \* ListaColaboradores.data (the list exists while
                          \* mostrandoFormulario is false: v-if)
    formColaborador,      \* FormColaborador.data.colaborador
    rede,        \* bag of axios requests and responses in flight
    simultaneas, \* history: two requests were in flight together since the
                 \* network was last empty
    versao,      \* connection test: which listing runs ("arquivo": the file's
                 \* first lines, "readme": the listing with the SHOW TABLES query)
    pcTeste,     \* connection test: position of testDatabaseConnection
    pool,        \* connection test: the pool and its one connection
    console,     \* connection test: what the terminal has printed
    execucoes    \* connection test: runs of the script so far

dbVars == <<tabela, autoInc>>
backVars == <<req, res>>
uiVars == <<mostrandoFormulario, colaboradorAtual, colaboradores, formColaborador,
            rede, simultaneas>>
testeVars == <<versao, pcTeste, pool, console, execucoes>>
vars == <<tabela, autoInc, req, res, mostrandoFormulario, colaboradorAtual,
          colaboradores, formColaborador, rede, simultaneas, versao, pcTeste, pool,
          console, execucoes>>

(***************************************************************************)
(* Bounds                                                                  *)
(***************************************************************************)
\* identifiers range over 0..MaxId
MaxId == 2

\* requests and responses in flight at once
MaxRede == 2

\* the front end's POSTs are served while AUTO_INCREMENT is at most MaxAuto
MaxAuto == 1

\* runs of the connection test
MaxExecucoes == 3

Ids == 0..MaxId

(***************************************************************************)
(* Data model                                                              *)
(***************************************************************************)
\* `id?: number` - the value standing for "the record carries no id"
SemId == 0 - 1

\* the four non-identifier columns, over two values that differ in every field
Dados ==
    { [nome |-> "Ana", cargo |-> "Dev", salario |-> 5000, data_admissao |-> "2024-01-01"],
      [nome |-> "Bia", cargo |-> "QA",  salario |-> 6000, data_admissao |-> "2024-02-01"] }

\* interface Colaborador: a record as the HTTP body / the form carries it
Colaborador ==
    [id : Ids \cup {SemId}, nome : {"Ana", "Bia"}, cargo : {"Dev", "QA"},
     salario : {5000, 6000}, data_admissao : {"2024-01-01", "2024-02-01"}]

Corpos ==
    { c \in Colaborador : \E d \in Dados :
        /\ c.nome = d.nome /\ c.cargo = d.cargo
        /\ c.salario = d.salario /\ c.data_admissao = d.data_admissao }

campos(c) ==
    [nome |-> c.nome, cargo |-> c.cargo, salario |-> c.salario,
     data_admissao |-> c.data_admissao]

linha(t, i) ==
    [id |-> i, nome |-> t[i].nome, cargo |-> t[i].cargo, salario |-> t[i].salario,
     data_admissao |-> t[i].data_admissao]

Max(a, b) == IF a >= b THEN a ELSE b

(***************************************************************************)
(* The table: CREATE TABLE colaboradores (id INT PRIMARY KEY AUTO_INCREMENT *)
(***************************************************************************)
\* ids in ascending order (the clustered primary-key order of SELECT *)
RECURSIVE ordenados(_)
ordenados(S) ==
    IF S = {} THEN <<>>
    ELSE LET m == CHOOSE x \in S : \A y \in S : x <= y
         IN  <<m>> \o ordenados(S \ {m})

\* elements of a sequence
elems(s) == { s[k] : k \in 1..Len(s) }

\* insert as INSERT ... ON DUPLICATE KEY UPDATE would do it: a colliding id
\* overwrites the row it collides with
insertSobrescreve(t, ai, c) ==
    LET novo == IF c.id \in {SemId, 0} THEN ai ELSE c.id
    IN  [ok |-> TRUE, erro |-> "",
         tabela |-> [i \in DOMAIN t \cup {novo} |->
                       IF i = novo THEN campos(c) ELSE t[i]],
         autoInc |-> Max(ai, novo + 1)]

\* INSERT ... SET ?: id absent or 0 draws the AUTO_INCREMENT value, an explicit
\* id is stored as given; a primary-key collision is error ER_DUP_ENTRY and
\* inserts nothing.  An explicit id at or above the counter advances it.
insert(t, ai, c) ==
    LET novo == IF c.id \in {SemId, 0} THEN ai ELSE c.id
    IN  IF novo \in DOMAIN t
        THEN [ok |-> FALSE, erro |-> "ER_DUP_ENTRY", tabela |-> t, autoInc |-> ai]
        ELSE [ok |-> TRUE, erro |-> "",
              tabela |-> [i \in DOMAIN t \cup {novo} |->
                            IF i = novo THEN campos(c) ELSE t[i]],
              autoInc |-> Max(ai, novo + 1)]

\* update that reports a row it did not find
updateEstrito(t, id, c) ==
    IF id \notin DOMAIN t
    THEN [ok |-> FALSE, erro |-> "ER_NOT_FOUND", tabela |-> t]
    ELSE [ok |-> TRUE, erro |-> "",
          tabela |-> [i \in DOMAIN t |-> IF i = id THEN campos(c) ELSE t[i]]]

\* UPDATE ... SET ? WHERE id = ?: every key of the payload is assigned, the id
\* key included; no matching row is zero rows affected, not an error; moving a
\* row onto another row's id is ER_DUP_ENTRY and changes nothing.
update(t, id, c) ==
    LET alvo == IF c.id = SemId THEN id ELSE c.id
    IN  IF id \notin DOMAIN t
        THEN [ok |-> TRUE, erro |-> "", tabela |-> t]
        ELSE IF alvo # id /\ alvo \in DOMAIN t
        THEN [ok |-> FALSE, erro |-> "ER_DUP_ENTRY", tabela |-> t]
        ELSE [ok |-> TRUE, erro |-> "",
              tabela |-> [i \in (DOMAIN t \ {id}) \cup {alvo} |->
                            IF i = alvo THEN campos(c) ELSE t[i]]]

\* the counter after an UPDATE that wrote id `alvo`: servers before 8.0 leave
\* it alone, later ones move it past a larger id
autoIncAposUpdate(ai, t, id, c) ==
    IF id \in DOMAIN t /\ c.id # SemId /\ c.id >= ai /\ update(t, id, c).ok
    THEN {ai, c.id + 1}
    ELSE {ai}

\* delete with the comparison slipped to WHERE id <= ?
deleteAte(t, id) == [i \in { j \in DOMAIN t : j > id } |-> t[i]]

\* DELETE ... WHERE id = ?
delete(t, id) == [i \in DOMAIN t \ {id} |-> t[i]]

(***************************************************************************)
(* ColaboradorModel                                                        *)
(***************************************************************************)
listar(t) == [k \in 1..Cardinality(DOMAIN t) |-> linha(t, ordenados(DOMAIN t)[k])]

criar(t, ai, colaborador) == insert(t, ai, colaborador)

atualizar(t, id, colaborador) == update(t, id, colaborador)

excluir(t, id) == delete(t, id)

(***************************************************************************)
(* ColaboradorController: each handler awaits the model, then responds      *)
(***************************************************************************)
SemCorpo ==
    [id |-> SemId, nome |-> "", cargo |-> "", salario |-> 0, data_admissao |-> ""]

\* mysql.createPool(...).promise(): no connection yet, end() not called
PoolNovo == [estado |-> "aberto", conexao |-> "nenhuma", end |-> 0, getConnection |-> 0]

\* colaboradorAtual: null
Nulo == [nulo |-> TRUE]

Ocioso ==
    [verbo |-> "", id |-> SemId, corpo |-> SemCorpo, pc |-> "ocioso", erro |-> "",
     colaboradores |-> <<>>]

resposta(status, message, dados) ==
    [status |-> status, message |-> message, dados |-> dados]

\* pool.query rejected: the await throws out of the async handler
rejeitado(r, erro) == [r EXCEPT !.pc = "rejeitado", !.erro = erro]

resolvido(r) == [r EXCEPT !.pc = "resolvido"]

\* the router dispatches a request to its handler, which reads params and body
Rota(verbo, id, corpo) ==
    /\ req.pc \in {"ocioso", "respondido", "rejeitado"}
    /\ \/ verbo = "GET" /\ id = SemId /\ corpo = SemCorpo
       \/ verbo = "POST" /\ id = SemId /\ corpo \in Corpos
          /\ (corpo.id \in {SemId, 0} => autoInc <= MaxId)
       \/ verbo = "PUT" /\ id \in Ids /\ corpo \in Corpos
       \/ verbo = "DELETE" /\ id \in Ids /\ corpo = SemCorpo
    /\ req' = [Ocioso EXCEPT !.verbo = verbo, !.id = id, !.corpo = corpo,
                             !.pc = "aguardando"]
    /\ res' = <<>>
    /\ UNCHANGED <<tabela, autoInc>>
    /\ UNCHANGED <<uiVars, testeVars>>

Falha ==
    /\ req.pc = "aguardando"
    /\ req' = rejeitado(req, "ECONNREFUSED")
    /\ UNCHANGED <<tabela, autoInc, res>>
    /\ UNCHANGED <<uiVars, testeVars>>

ListarAwait ==
    /\ req.pc = "aguardando" /\ req.verbo = "GET"
    /\ req' = [resolvido(req) EXCEPT !.colaboradores = listar(tabela)]
    /\ UNCHANGED <<tabela, autoInc, res>>
    /\ UNCHANGED <<uiVars, testeVars>>

ListarRes ==
    /\ req.pc = "resolvido" /\ req.verbo = "GET"
    /\ res' = Append(res, resposta(200, "", req.colaboradores))
    /\ req' = [req EXCEPT !.pc = "respondido"]
    /\ UNCHANGED <<tabela, autoInc>>
    /\ UNCHANGED <<uiVars, testeVars>>

CriarAwait ==
    /\ req.pc = "aguardando" /\ req.verbo = "POST"
    /\ LET r == criar(tabela, autoInc, req.corpo)
       IN  /\ tabela' = r.tabela
           /\ autoInc' = r.autoInc
           /\ req' = IF r.ok THEN resolvido(req) ELSE rejeitado(req, r.erro)
    /\ UNCHANGED res
    /\ UNCHANGED <<uiVars, testeVars>>

\* criar without its await: the response goes out while the query is pending
CriarResSemAwait ==
    /\ req.pc = "aguardando" /\ req.verbo = "POST"
    /\ Len(res) < 2
    /\ res' = Append(res, resposta(201, "Colaborador criado!", <<>>))
    /\ UNCHANGED <<tabela, autoInc, req>>
    /\ UNCHANGED <<uiVars, testeVars>>

CriarRes ==
    /\ req.pc = "resolvido" /\ req.verbo = "POST"
    /\ res' = Append(res, resposta(201, "Colaborador criado!", <<>>))
    /\ req' = [req EXCEPT !.pc = "respondido"]
    /\ UNCHANGED <<tabela, autoInc>>
    /\ UNCHANGED <<uiVars, testeVars>>

AtualizarAwait ==
    /\ req.pc = "aguardando" /\ req.verbo = "PUT"
    /\ LET r == atualizar(tabela, req.id, req.corpo)
       IN  /\ tabela' = r.tabela
           /\ autoInc' \in autoIncAposUpdate(autoInc, tabela, req.id, req.corpo)
           /\ req' = IF r.ok THEN resolvido(req) ELSE rejeitado(req, r.erro)
    /\ UNCHANGED res
    /\ UNCHANGED <<uiVars, testeVars>>

AtualizarRes ==
    /\ req.pc = "resolvido" /\ req.verbo = "PUT"
    /\ res' = Append(res, resposta(200, "Colaborador atualizado!", <<>>))
    /\ req' = [req EXCEPT !.pc = "respondido"]
    /\ UNCHANGED <<tabela, autoInc>>
    /\ UNCHANGED <<uiVars, testeVars>>

ExcluirAwait ==
    /\ req.pc = "aguardando" /\ req.verbo = "DELETE"
    /\ tabela' = excluir(tabela, req.id)
    /\ req' = resolvido(req)
    /\ UNCHANGED <<autoInc, res>>
    /\ UNCHANGED <<uiVars, testeVars>>

ExcluirRes ==
    /\ req.pc = "resolvido" /\ req.verbo = "DELETE"
    /\ res' = Append(res, resposta(200, "Colaborador excluído!", <<>>))
    /\ req' = [req EXCEPT !.pc = "respondido"]
    /\ UNCHANGED <<tabela, autoInc>>
    /\ UNCHANGED <<uiVars, testeVars>>

\* Home.data, and no component talking to the back end
SemUI ==
    /\ mostrandoFormulario = FALSE
    /\ colaboradorAtual = Nulo
    /\ colaboradores = <<>>
    /\ formColaborador = SemCorpo
    /\ rede = EmptyBag
    /\ simultaneas = FALSE

\* the connection test is not running
SemTeste ==
    /\ versao = "arquivo"
    /\ pcTeste = "parado"
    /\ pool = PoolNovo
    /\ console = <<>>
    /\ execucoes = 0

Init ==
    /\ tabela = <<>>
    /\ autoInc = 1
    /\ req = Ocioso
    /\ res = <<>>
    /\ SemUI
    /\ SemTeste

Next ==
    \/ \E verbo \in {"GET", "POST", "PUT", "DELETE"}, id \in Ids \cup {SemId},
          corpo \in Corpos \cup {SemCorpo} : Rota(verbo, id, corpo)
    \/ Falha
    \/ ListarAwait \/ ListarRes
    \/ CriarAwait \/ CriarRes
    \/ AtualizarAwait \/ AtualizarRes
    \/ ExcluirAwait \/ ExcluirRes

Spec == Init /\ [][Next]_vars

(***************************************************************************)
(* Front end: axios, ListaColaboradores, FormColaborador, Home              *)
(***************************************************************************)
\* stores the UI can start against: each is a table (with its counter) the back
\* end reaches in Spec (ReachesInitTabela): POST, PUT /colaboradores/1 with a
\* body whose id is 0, POST with a body whose id is 1
InitTabelas ==
    { [tabela |-> <<>>, autoInc |-> 1],
      [tabela |-> (0 :> [nome |-> "Ana", cargo |-> "Dev", salario |-> 5000,
                         data_admissao |-> "2024-01-01"])
                  @@ (1 :> [nome |-> "Bia", cargo |-> "QA", salario |-> 6000,
                            data_admissao |-> "2024-02-01"]),
       autoInc |-> 2] }

\* a request as axios sends it; `de` is the component whose method awaits it and
\* `vivo` whether that component instance still exists
pedido(de, vivo, verbo, id, corpo) ==
    [de |-> de, vivo |-> vivo, verbo |-> verbo, id |-> id, corpo |-> corpo,
     fase |-> "pedido", ok |-> TRUE, dados |-> <<>>]

respostaDe(m, ok, dados) == [m EXCEPT !.fase = "resposta", !.ok = ok, !.dados = dados]

um(m) == SetToBag({m})

\* v-if removes component `de`.  What it still awaits resumes on a destroyed
\* instance: it assigns data nobody renders, emits to no listener, or fetches
\* for that same instance, none of which the program can observe.  So only
\* its requests that can still write to the store stay in the network,
\* without a live owner; anything else of it is dropped here.
orfaos(b, de) ==
    LET S == BagToSet(b)
        fica(m) == m.de # de \/ (m.fase = "pedido" /\ m.verbo # "GET")
        f(m) == IF m.de = de THEN [m EXCEPT !.vivo = FALSE] ELSE m
        T == { f(m) : m \in { x \in S : fica(x) } }
        n(x) == (IF x \in S THEN b[x] ELSE 0)
                + (IF x.de = de /\ ~x.vivo /\ [x EXCEPT !.vivo = TRUE] \in S
                   THEN b[[x EXCEPT !.vivo = TRUE]] ELSE 0)
    IN  [x \in T |-> n(x)]

\* the response to m travels back, unless nothing awaits it any more
responde(r, m, ok, dados) ==
    IF m.vivo THEN (r (-) um(m)) (+) um(respostaDe(m, ok, dados)) ELSE r (-) um(m)

Hist(r) == IF r = EmptyBag THEN FALSE ELSE simultaneas \/ BagCardinality(r) >= 2

\* `if (this.colaborador.id)`
truthy(id) == id # SemId /\ id # 0

\* ListaColaboradores.fetchColaboradores, up to its await
fetchColaboradores(vivo) == pedido("lista", vivo, "GET", SemId, SemCorpo)

\* ListaColaboradores.excluirColaborador, up to its await
excluirColaborador(id) == pedido("lista", TRUE, "DELETE", id, SemCorpo)

\* FormColaborador.salvarColaborador, up to its await
salvarColaborador(c) ==
    IF truthy(c.id)
    THEN pedido("form", TRUE, "PUT", c.id, c)
    ELSE pedido("form", TRUE, "POST", SemId, c)

\* Home.methods
mostrarFormularioNovo == [mostrandoFormulario |-> TRUE, colaboradorAtual |-> SemCorpo]

mostrarFormularioEditar(c) == [mostrandoFormulario |-> TRUE, colaboradorAtual |-> c]

\* esconderFormulario that forgets to clear the current record
esconderSemLimpar == [mostrandoFormulario |-> FALSE, colaboradorAtual |-> colaboradorAtual]

esconderFormulario == [mostrandoFormulario |-> FALSE, colaboradorAtual |-> Nulo]

\* Home.atualizarLista: esconderFormulario(), then this.$refs.lista is undefined
\* (the template sets no ref) and the call on it throws: nothing else happens
atualizarLista == esconderFormulario

\* the render after Home shows the form: the list goes, the form's immediate
\* watcher copies colaboradorInicial
AbreFormulario(h) ==
    /\ mostrandoFormulario' = h.mostrandoFormulario
    /\ colaboradorAtual' = h.colaboradorAtual
    /\ formColaborador' = h.colaboradorAtual
    /\ colaboradores' = <<>>
    /\ rede' = orfaos(rede, "lista")
    /\ simultaneas' = Hist(rede')
    /\ UNCHANGED <<testeVars, dbVars, backVars>>

\* the render after Home hides the form: the form goes, a new list is created
\* and its mounted() fetches
FechaFormulario(h, r) ==
    /\ mostrandoFormulario' = h.mostrandoFormulario
    /\ colaboradorAtual' = h.colaboradorAtual
    /\ formColaborador' = SemCorpo
    /\ colaboradores' = <<>>
    /\ rede' = orfaos(r, "form") (+) um(fetchColaboradores(TRUE))
    /\ simultaneas' = Hist(rede')
    /\ UNCHANGED <<testeVars, dbVars, backVars>>

\* click "Adicionar Novo Colaborador"
Adicionar ==
    /\ ~mostrandoFormulario
    /\ AbreFormulario(mostrarFormularioNovo)

\* click "Editar" on a displayed row
Editar(k) ==
    /\ ~mostrandoFormulario
    /\ k \in DOMAIN colaboradores
    /\ AbreFormulario(mostrarFormularioEditar(colaboradores[k]))

\* the user fills the four inputs (v-model)
Preencher(d) ==
    /\ mostrandoFormulario
    /\ campos(formColaborador) # d
    /\ formColaborador' = [formColaborador EXCEPT !.nome = d.nome, !.cargo = d.cargo,
                             !.salario = d.salario, !.data_admissao = d.data_admissao]
    /\ UNCHANGED <<testeVars, dbVars, backVars, mostrandoFormulario, colaboradorAtual,
                   colaboradores, rede, simultaneas>>

\* submit of the form, every `required` input filled
Salvar ==
    /\ mostrandoFormulario
    /\ formColaborador.nome # "" /\ formColaborador.cargo # ""
    /\ formColaborador.data_admissao # ""
    /\ BagCardinality(rede) < MaxRede
    /\ rede' = rede (+) um(salvarColaborador(formColaborador))
    /\ simultaneas' = Hist(rede')
    /\ UNCHANGED <<testeVars, dbVars, backVars, mostrandoFormulario, colaboradorAtual,
                   colaboradores, formColaborador>>

\* click "Cancelar"
Cancelar ==
    /\ mostrandoFormulario
    /\ BagCardinality(rede) < MaxRede
    /\ FechaFormulario(esconderFormulario, rede)

\* click "Excluir" on a displayed row
Excluir(k) ==
    /\ ~mostrandoFormulario
    /\ k \in DOMAIN colaboradores
    /\ BagCardinality(rede) < MaxRede
    /\ rede' = rede (+) um(excluirColaborador(colaboradores[k].id))
    /\ simultaneas' = Hist(rede')
    /\ UNCHANGED <<testeVars, dbVars, backVars, mostrandoFormulario, colaboradorAtual,
                   colaboradores, formColaborador>>

\* the back end handles a request: the route's handler runs the model and responds
Servir(m) ==
    /\ BagIn(m, rede) /\ m.fase = "pedido"
    /\ (m.verbo = "POST" /\ m.corpo.id \in {SemId, 0}) => autoInc <= MaxAuto
    /\ LET c == IF m.verbo = "POST" THEN criar(tabela, autoInc, m.corpo)
                ELSE [ok |-> TRUE, tabela |-> tabela, autoInc |-> autoInc]
           a == IF m.verbo = "PUT" THEN atualizar(tabela, m.id, m.corpo)
                ELSE [ok |-> TRUE, tabela |-> tabela]
       IN  /\ tabela' = CASE m.verbo = "GET" -> tabela
                          [] m.verbo = "POST" -> c.tabela
                          [] m.verbo = "PUT" -> a.tabela
                          [] m.verbo = "DELETE" -> excluir(tabela, m.id)
           /\ autoInc' \in IF m.verbo = "PUT"
                           THEN autoIncAposUpdate(autoInc, tabela, m.id, m.corpo)
                           ELSE {c.autoInc}
           /\ rede' = responde(rede, m, c.ok /\ a.ok,
                               IF m.verbo = "GET" THEN listar(tabela) ELSE <<>>)
    /\ simultaneas' = Hist(rede')
    /\ UNCHANGED <<testeVars, backVars, mostrandoFormulario, colaboradorAtual, colaboradores,
                   formColaborador>>

\* the store is unreachable: the handler throws and the request fails
ServirFalha(m) ==
    /\ BagIn(m, rede) /\ m.fase = "pedido"
    /\ rede' = responde(rede, m, FALSE, <<>>)
    /\ simultaneas' = Hist(rede')
    /\ UNCHANGED <<testeVars, dbVars, backVars, mostrandoFormulario, colaboradorAtual,
                   colaboradores, formColaborador>>

\* fetchColaboradores resumes: `this.colaboradores = response.data`
ReceberLista(m) ==
    /\ BagIn(m, rede) /\ m.fase = "resposta" /\ m.de = "lista" /\ m.verbo = "GET"
    /\ rede' = rede (-) um(m)
    /\ colaboradores' = IF m.ok /\ m.vivo THEN m.dados ELSE colaboradores
    /\ simultaneas' = Hist(rede')
    /\ UNCHANGED <<testeVars, dbVars, backVars, mostrandoFormulario, colaboradorAtual,
                   formColaborador>>

\* excluirColaborador resumes: `this.fetchColaboradores()`
ReceberExclusao(m) ==
    /\ BagIn(m, rede) /\ m.fase = "resposta" /\ m.de = "lista" /\ m.verbo = "DELETE"
    /\ rede' = IF m.ok THEN (rede (-) um(m)) (+) um(fetchColaboradores(m.vivo))
               ELSE rede (-) um(m)
    /\ simultaneas' = Hist(rede')
    /\ UNCHANGED <<testeVars, dbVars, backVars, mostrandoFormulario, colaboradorAtual,
                   colaboradores, formColaborador>>

\* salvarColaborador resumes: `this.$emit('salvo')`, which runs
\* Home.atualizarLista while the form still exists
ReceberSalvo(m) ==
    /\ BagIn(m, rede) /\ m.fase = "resposta" /\ m.de = "form"
    /\ IF m.ok /\ m.vivo
       THEN FechaFormulario(atualizarLista, rede (-) um(m))
       ELSE /\ rede' = rede (-) um(m)
            /\ simultaneas' = Hist(rede')
            /\ UNCHANGED <<testeVars, dbVars, backVars, mostrandoFormulario, colaboradorAtual,
                           colaboradores, formColaborador>>

\* Home is created showing the list, whose mounted() fetches
InitUI ==
    /\ \E t \in InitTabelas : tabela = t.tabela /\ autoInc = t.autoInc
    /\ req = Ocioso
    /\ res = <<>>
    /\ mostrandoFormulario = FALSE
    /\ colaboradorAtual = Nulo
    /\ colaboradores = <<>>
    /\ formColaborador = SemCorpo
    /\ rede = um(fetchColaboradores(TRUE))
    /\ simultaneas = FALSE
    /\ SemTeste

NextUI ==
    \/ Adicionar
    \/ \E k \in DOMAIN colaboradores : Editar(k)
    \/ \E d \in Dados : Preencher(d)
    \/ Salvar
    \/ Cancelar
    \/ \E k \in DOMAIN colaboradores : Excluir(k)
    \/ \E m \in BagToSet(rede) : Servir(m)
    \/ \E m \in BagToSet(rede) : ServirFalha(m)
    \/ \E m \in BagToSet(rede) : ReceberLista(m)
    \/ \E m \in BagToSet(rede) : ReceberExclusao(m)
    \/ \E m \in BagToSet(rede) : ReceberSalvo(m)

SpecUI == InitUI /\ [][NextUI]_vars

\* the List View on its own, against a back end that answers every request
NextLista ==
    \/ \E k \in DOMAIN colaboradores : Excluir(k)
    \/ \E m \in BagToSet(rede) : Servir(m)
    \/ \E m \in BagToSet(rede) : ReceberLista(m)
    \/ \E m \in BagToSet(rede) : ReceberExclusao(m)

SpecLista == InitUI /\ [][NextLista]_vars

(***************************************************************************)
(* testDatabaseConnection                                                  *)
(***************************************************************************)
\* pool.getConnection() is called
getConnection(p) == [p EXCEPT !.getConnection = @ + 1]

\* connection.release()
release(p) == [p EXCEPT !.conexao = "livre"]

\* pool.end() is called: the pool stops handing out connections and closes
\* its own in the background
end(p) == [p EXCEPT !.estado = "encerrando", !.end = @ + 1]

\* console.error in catch: each listing has its own wording
erroAoConectar(v) ==
    IF v = "arquivo" THEN "Erro ao conectar com o banco de dados:"
    ELSE "Erro ao conectar ao banco de dados:"

\* a catch block that returns early, so the finally of the listing is skipped
FalhaConexaoSemFinally ==
    /\ pcTeste = "getConnection"
    /\ console' = Append(console, erroAoConectar(versao))
    /\ pcTeste' = "fim"
    /\ UNCHANGED <<dbVars, backVars, uiVars, versao, pool, execucoes>>

\* `npx ts-node testDatabase.ts`: the module creates its pool and calls
\* testDatabaseConnection(), which runs up to `await pool.getConnection()`
Executar(v) ==
    /\ pcTeste \in {"parado", "fim"}
    /\ pool.estado # "encerrando"
    /\ execucoes < MaxExecucoes
    /\ versao' = v
    /\ execucoes' = execucoes + 1
    /\ pool' = getConnection(PoolNovo)
    /\ pcTeste' = "getConnection"
    /\ UNCHANGED <<dbVars, backVars, uiVars, console>>

\* the acquisition resolves: log; the file's listing is then done with its try
\* and runs finally, the README's goes on to `await connection.query`
Conectou ==
    /\ pcTeste = "getConnection"
    /\ console' = Append(console, "Conexão com o banco de dados bem-sucedida!")
    /\ IF versao = "arquivo"
       THEN /\ pool' = end([pool EXCEPT !.conexao = "emUso"])
            /\ pcTeste' = "fim"
       ELSE /\ pool' = [pool EXCEPT !.conexao = "emUso"]
            /\ pcTeste' = "query"
    /\ UNCHANGED <<dbVars, backVars, uiVars, versao, execucoes>>

\* the acquisition rejects: catch logs the error, finally ends the pool
FalhaConexao ==
    /\ pcTeste = "getConnection"
    /\ console' = Append(console, erroAoConectar(versao))
    /\ pool' = end(pool)
    /\ pcTeste' = "fim"
    /\ UNCHANGED <<dbVars, backVars, uiVars, versao, execucoes>>

\* SHOW TABLES resolves with or without a row: log, release, finally
Consultou(encontrada) ==
    /\ pcTeste = "query"
    /\ console' = Append(console, IF encontrada
                                  THEN "Tabela 'colaboradores' encontrada!"
                                  ELSE "Tabela 'colaboradores' não encontrada.")
    /\ pool' = end(release(pool))
    /\ pcTeste' = "fim"
    /\ UNCHANGED <<dbVars, backVars, uiVars, versao, execucoes>>

\* SHOW TABLES rejects: catch logs (the connection is not released), finally
FalhaConsulta ==
    /\ pcTeste = "query"
    /\ console' = Append(console, erroAoConectar(versao))
    /\ pool' = end(pool)
    /\ pcTeste' = "fim"
    /\ UNCHANGED <<dbVars, backVars, uiVars, versao, execucoes>>

\* the pool finishes closing
Encerrou ==
    /\ pool.estado = "encerrando"
    /\ pool' = [pool EXCEPT !.estado = "encerrado",
                            !.conexao = IF @ = "nenhuma" THEN @ ELSE "fechada"]
    /\ UNCHANGED <<dbVars, backVars, uiVars, versao, pcTeste, console, execucoes>>

InitTeste ==
    /\ tabela = <<>>
    /\ autoInc = 1
    /\ req = Ocioso
    /\ res = <<>>
    /\ SemUI
    /\ SemTeste

NextTeste ==
    \/ \E v \in {"arquivo", "readme"} : Executar(v)
    \/ Conectou
    \/ FalhaConexao
    \/ \E encontrada \in BOOLEAN : Consultou(encontrada)
    \/ FalhaConsulta
    \/ Encerrou

SpecTeste == InitTeste /\ [][NextTeste]_vars

(***************************************************************************)
(* Back-end claims                                                         *)
(***************************************************************************)
\* the step in which the model call of the handler for `verbo` settles
Assenta(verbo) ==
    /\ req.pc = "aguardando" /\ req.verbo = verbo
    /\ req'.pc \in {"resolvido", "rejeitado"}
    /\ req'.erro # "ECONNREFUSED"

C2_AtualizarSoMudaALinha ==
    [][ (Assenta("PUT") /\ req.id \in DOMAIN tabela /\ req'.pc = "resolvido") =>
          /\ DOMAIN tabela' = DOMAIN tabela
          /\ \A i \in DOMAIN tabela \ {req.id} : tabela'[i] = tabela[i]
          /\ tabela'[req.id] = campos(req.corpo) ]_vars

\* C3: atualizar and excluir with an id that matches no row leave the table as
\* it was and raise no error, and the handler then answers 200 with its
\* success message.
C3_IdAusenteNaoAltera ==
    [][ /\ (\E v \in {"PUT", "DELETE"} : Assenta(v) /\ req.id \notin DOMAIN tabela) =>
              /\ tabela' = tabela
              /\ req'.pc = "resolvido"
        /\ (req.pc = "resolvido" /\ req.verbo \in {"PUT", "DELETE"}
              /\ req.id \notin DOMAIN tabela /\ req' # req) =>
              /\ tabela' = tabela
              /\ req'.pc = "respondido"
              /\ Len(res') = 1 /\ res'[1].status = 200
              /\ res'[1].message = IF req.verbo = "PUT"
                                   THEN "Colaborador atualizado!"
                                   ELSE "Colaborador excluído!" ]_vars

C3_Witness ==
    /\ req.pc = "respondido" /\ req.verbo = "PUT"
    /\ tabela # <<>> /\ req.id \notin DOMAIN tabela
    /\ req.corpo.id \in DOMAIN tabela

\* C4: excluir with an id that exists removes exactly that row: listar
\* afterwards returns every other row unchanged and no row with that id.
C4_ExcluirRemoveUmaLinha ==
    [][ (Assenta("DELETE") /\ req.id \in DOMAIN tabela) =>
          LET antes == listar(tabela)
              depois == listar(tabela')
          IN  /\ req'.pc = "resolvido"
              /\ Len(depois) = Len(antes) - 1
              /\ elems(depois) = elems(antes) \ {linha(tabela, req.id)}
              /\ \A n \in elems(depois) : n.id # req.id ]_vars

C4_Witness ==
    /\ req.pc = "resolvido" /\ req.verbo = "DELETE"
    /\ req.id \notin DOMAIN tabela
    /\ \E i \in DOMAIN tabela : i < req.id
    /\ autoInc > req.id

\* C5: criar ignores the id of the input: the insert never fails on it, the
\* new row gets the AUTO_INCREMENT value, and the rows stored before are
\* untouched.
C5_CriarIgnoraId ==
    [][ Assenta("POST") =>
          /\ req'.pc = "resolvido"
          /\ DOMAIN tabela' = DOMAIN tabela \cup {autoInc}
          /\ \A i \in DOMAIN tabela : tabela'[i] = tabela[i] ]_vars

\* C6: a handler sends nothing before its model call has completed and nothing
\* when it threw; once it has responded it has sent exactly one response, 201
\* for POST and 200 for GET, PUT and DELETE, GET's body being the rows read.
C6_UmaRespostaAposOModel ==
    /\ req.pc \in {"ocioso", "aguardando", "resolvido", "rejeitado"} => res = <<>>
    /\ req.pc = "respondido" =>
          /\ Len(res) = 1
          /\ res[1].status = IF req.verbo = "POST" THEN 201 ELSE 200
          /\ res[1].dados = req.colaboradores

\* the populated table the front end starts against is one the back end reaches
ReachesInitTabela ==
    \E t \in InitTabelas : t.tabela # <<>> /\ tabela = t.tabela /\ autoInc = t.autoInc

C6_Witness ==
    /\ req.pc = "respondido" /\ req.verbo = "POST"
    /\ res = <<resposta(201, "Colaborador criado!", <<>>)>>
    /\ tabela # <<>>

(***************************************************************************)
(* Front-end claims                                                        *)
(***************************************************************************)
\* the step in which the form's awaited request m has succeeded and its
\* salvarColaborador goes on to emit 'salvo'
Salvo(m) ==
    /\ BagIn(m, rede) /\ m.de = "form" /\ m.fase = "resposta" /\ m.ok /\ m.vivo
    /\ CopiesIn(m, rede') < CopiesIn(m, rede)
    /\ BagCardinality(rede') = BagCardinality(rede)

\* C7: a submit issues exactly one request, PUT /colaboradores/{id} when the
\* edited record has an identifier and POST /colaboradores when it has none;
\* and the form is closed by 'salvo' only on the successful response to a
\* request of the form.
C7_SalvarEscolheOPedido ==
    [][ /\ (mostrandoFormulario /\ mostrandoFormulario'
              /\ BagCardinality(rede') > BagCardinality(rede)) =>
              rede' = rede (+) um(IF formColaborador.id # SemId
                                  THEN pedido("form", TRUE, "PUT", formColaborador.id,
                                              formColaborador)
                                  ELSE pedido("form", TRUE, "POST", SemId,
                                              formColaborador))
        /\ (mostrandoFormulario /\ ~mostrandoFormulario'
              /\ BagCardinality(rede') = BagCardinality(rede)) =>
              \E m \in BagToSet(rede) : Salvo(m) ]_vars

\* C8: once every request of the List View has been answered, the displayed
\* sequence is the store's rows.
C8_ListaIgualAoBanco ==
    rede = EmptyBag => colaboradores = listar(tabela)

C9_PoolEncerradoUmaVez ==
    /\ pcTeste \in {"getConnection", "query"} =>
          pool.end = 0 /\ pool.estado = "aberto" /\ pool.getConnection = 1
    /\ pcTeste = "fim" =>
          /\ pool.end = 1 /\ pool.estado # "aberto" /\ pool.getConnection = 1
          /\ console # <<>>
          /\ pool.conexao = "nenhuma" => console[Len(console)] = erroAoConectar(versao)
    /\ pool.estado # "aberto" => pcTeste = "fim"

\* the acquisition was rejected, the error logged and the pool ended
C9_Witness ==
    /\ pcTeste = "fim" /\ pool.conexao = "nenhuma" /\ pool.end = 1
    /\ pool.estado = "encerrado" /\ execucoes = 2
    /\ console[Len(console)] = erroAoConectar(versao)

====
